---- MODULE Spec2Model ----
(***************************************************************************)
(* cloudinit/config/cc_puppet.py: handle() installs puppet, merges the     *)
(* 'conf' description into puppet.conf, places the puppetmaster            *)
(* certificate, enables and starts the service.  The model follows handle  *)
(* call by call; every call to a collaborator (util, helpers, cloud,       *)
(* socket) that succeeds is appended to the variable calls.                *)
(***************************************************************************)
EXTENDS Integers, Sequences, FiniteSets, TLC

(* ------------------------------ bounds -------------------------------- *)
\* most key/value pairs in one section of the description
MaxKeys == 2

(* ------------------------------ strings ------------------------------- *)
\* Strings whose characters matter (values, names of the machine) are
\* sequences of one-character strings.
Pct_f == <<"%", "f">>
Pct_i == <<"%", "i">>
\* the value used in the description: "A%i.%f"
TemplateValue == <<"A", "%", "i", ".", "%", "f">>
\* the value found in the existing files: "Old"
OldValue == <<"O", "l", "d">>
\* the certificate payload: "PEM"
PemValue == <<"P", "E", "M">>
\* what socket.getfqdn() returns: "Host.example.com"
Fqdns == { <<"H","o","s","t",".","e","x","a","m","p","l","e",".","c","o","m">> }
\* "i-1234", and None when the datasource has no instance id
NoId == <<"None">>
InstanceIds == { <<"i","-","1","2","3","4">>, NoId }

\* str.lower() on one character of the alphabet in use
LowerChar(c) ==
    CASE c = "A" -> "a"
      [] c = "H" -> "h"
      [] c = "I" -> "i"
      [] c = "O" -> "o"
      [] c = "P" -> "p"
      [] c = "E" -> "e"
      [] c = "M" -> "m"
      [] OTHER -> c

\* str.lower()
lower(s) == [n \in 1..Len(s) |-> LowerChar(s[n])]

\* str.replace(old, new): leftmost, non-overlapping occurrences, one pass
RECURSIVE replace(_, _, _)
replace(s, old, new) ==
    IF Len(s) < Len(old) THEN s
    ELSE IF SubSeq(s, 1, Len(old)) = old
         THEN new \o replace(SubSeq(s, Len(old) + 1, Len(s)), old, new)
         ELSE <<Head(s)>> \o replace(Tail(s), old, new)

(* ------------------------------- paths -------------------------------- *)
DEFAULT_SSL_DIR == "/var/lib/puppet/ssl"
DEFAULT_CONF_DIR == "/etc/puppet"
DEFAULT_PACKAGE_NAME == "puppet"
\* PuppetConstants
conf_path == DEFAULT_CONF_DIR \o "/puppet.conf"
ssl_dir == DEFAULT_SSL_DIR
ssl_cert_dir == DEFAULT_SSL_DIR \o "/certs"
ssl_cert_path == ssl_cert_dir \o "/ca.pem"
\* "%s.old" % (p_constants.conf_path)
OldPath(p) == p \o ".old"
Paths == {conf_path, OldPath(conf_path), ssl_dir, ssl_cert_dir, ssl_cert_path}

NoFile == [kind |-> "none"]
File(data) == [kind |-> "file", data |-> data]
Dir(mode) == [kind |-> "dir", mode |-> mode]

(* ----------------------- puppet.conf as text -------------------------- *)
\* A text is a sequence of lines; a line is a section header, a key/value
\* line (with its indentation and its separator as written), a comment or a
\* blank line.
Hdr(name) == [t |-> "hdr", name |-> name]
Kv(indent, key, sep, val) ==
    [t |-> "kv", indent |-> indent, key |-> key, sep |-> sep, val |-> val]
Comment == [t |-> "comment"]
Blank == [t |-> "blank"]

\* i.lstrip() for i in contents.splitlines()
lstrip(line) == IF line.t = "kv" THEN [line EXCEPT !.indent = 0] ELSE line
cleaned_lines(contents) == [n \in 1..Len(contents) |-> lstrip(contents[n])]

(* ------------------------ the sectioned store ------------------------- *)
\* A store is a sequence of sections [name, items]; items is a sequence of
\* <<key, value>> pairs.
SectionIndex(st, s) ==
    IF \E n \in 1..Len(st) : st[n].name = s
    THEN CHOOSE n \in 1..Len(st) : st[n].name = s
    ELSE 0
KeyIndex(items, k) ==
    IF \E n \in 1..Len(items) : items[n][1] = k
    THEN CHOOSE n \in 1..Len(items) : items[n][1] = k
    ELSE 0

add_section(st, s) ==
    IF SectionIndex(st, s) = 0 THEN Append(st, [name |-> s, items |-> <<>>]) ELSE st

\* DefaultingConfigParser.set(section, option, value)
set(st, s, k, v) ==
    LET st1 == add_section(st, s)
        n == SectionIndex(st1, s)
        items == st1[n].items
        m == KeyIndex(items, k)
        items1 == IF m = 0 THEN Append(items, <<k, v>>)
                  ELSE [items EXCEPT ![m] = <<k, v>>]
    IN [st1 EXCEPT ![n].items = items1]

\* DefaultingConfigParser.readfp: a header opens (or reopens) a section, a
\* key/value line sets the key in the open section, other lines are skipped.
RECURSIVE readfp(_, _, _)
readfp(lines, st, cur) ==
    IF lines = <<>> THEN st
    ELSE LET l == Head(lines) IN
         IF l.t = "hdr" THEN readfp(Tail(lines), add_section(st, l.name), l.name)
         ELSE IF l.t = "kv" /\ cur # ""
              THEN readfp(Tail(lines), set(st, cur, l.key, l.val), cur)
              ELSE readfp(Tail(lines), st, cur)

\* DefaultingConfigParser.stringify: "[name]", "key = value" lines and a
\* blank line for every section, in store order.
RECURSIVE stringify(_)
stringify(st) ==
    IF st = <<>> THEN <<>>
    ELSE <<Hdr(Head(st).name)>>
         \o [n \in 1..Len(Head(st).items) |->
                Kv(0, Head(st).items[n][1], " = ", Head(st).items[n][2])]
         \o <<Blank>>
         \o stringify(Tail(st))

\* LoadStore that does not read the existing contents
LoadStore_Empty(contents) == <<>>

\* lines 155-164: the store read from the contents of puppet.conf
LoadStore(contents) == readfp(cleaned_lines(contents), <<>>, "")

(* ------------------------- rewriting of values ------------------------ *)
\* certname_value with the value downcased before the expansion
certname_value_LowerFirst(v, fqdn, iid) ==
    replace(replace(lower(v), Pct_f, fqdn), Pct_i, iid)

\* lines 184-188: v.replace("%f", fqdn).replace("%i", instance id).lower()
certname_value(v, fqdn, iid) == lower(replace(replace(v, Pct_f, fqdn), Pct_i, iid))

\* lines 181-189: the value handed to puppet_config.set for option o
option_value(o, v, fqdn, iid) ==
    IF o = "certname" THEN certname_value(v, fqdn, iid) ELSE v

\* set_option with section and option exchanged
set_option_Swapped(st, cfg_name, o, v) == set(st, o, cfg_name, v)

\* line 189: puppet_config.set(cfg_name, o, v)
set_option(st, cfg_name, o, v) == set(st, cfg_name, o, v)

(* ------------------------------ inputs -------------------------------- *)
SectionNames == {"main", "agent"}
Keys == {"server", "certname", "ca_cert"}
None == "None"
\* the 'install' key (absent, true or false) with the 'version' key
InstallOpts ==
    { <<"unset", None>>, <<"true", "3.8">>, <<"false", None>>, <<"false", "3.8">> }

\* a mapping of options, in its iteration order: no key twice
Bodies ==
    { b \in UNION { [1..n -> Keys \X {TemplateValue}] : n \in 0..MaxKeys } :
        \A a, c \in 1..Len(b) : a # c => b[a][1] # b[c][1] }

DictEntry(name, body) == [name |-> name, shape |-> "dict", body |-> body, str |-> <<>>]
StrEntry(name, str) == [name |-> name, shape |-> "str", body |-> <<>>, str |-> str]

\* the top-level entries of 'conf': a section with a mapping, a section whose
\* value is a string instead of a mapping, and ca_cert with its payload
Entries ==
    { DictEntry(s, b) : s \in SectionNames, b \in Bodies }
    \cup { StrEntry(s, TemplateValue) : s \in SectionNames }
    \cup { StrEntry("ca_cert", PemValue) }

TopNames == SectionNames \cup {"ca_cert"}

\* puppet_cfg['conf'].items(): entries with distinct names, in any order
Descriptions ==
    { d \in UNION { [1..n -> Entries] : n \in 0..Cardinality(TopNames) } :
        \A a, c \in 1..Len(d) : a # c => d[a].name # d[c].name }

\* cfg: without the 'puppet' key, with it and without 'conf', with both
Configs ==
    { [puppet |-> FALSE, install |-> "unset", version |-> None,
       has_conf |-> FALSE, conf |-> <<>>] }
    \cup { [puppet |-> TRUE, install |-> i[1], version |-> i[2],
            has_conf |-> FALSE, conf |-> <<>>] : i \in InstallOpts }
    \cup { [puppet |-> TRUE, install |-> i[1], version |-> i[2],
            has_conf |-> TRUE, conf |-> d] :
             i \in InstallOpts, d \in Descriptions }

\* the existing puppet.conf: written by hand (a comment, an indented line,
\* "key=value"), with a section of two keys and a second section
ExistingConf ==
    << Comment, Hdr("agent"), Kv(1, "server", "=", OldValue),
       Kv(0, "certname", " = ", OldValue), Blank,
       Hdr("user"), Kv(0, "server", " = ", OldValue) >>
\* puppet.conf when handle is called: absent, or the existing file
InitialConfFiles == { NoFile, File(ExistingConf) }

(* ------------------------------- state -------------------------------- *)
VARIABLES
    cfg,            \* handle's argument cfg
    pc,             \* where handle is
    idx,            \* position of the loop of line 165 in conf's items
    kidx,           \* position of the loop of line 180 in the section's items
    contents,       \* line 155
    puppet_config,  \* line 157: the store
    fs,             \* the files and directories at Paths
    owner,          \* their owners, as set by chownbyname
    calls,          \* the calls to collaborators that returned, in order
    err             \* the exception that ended handle, or "none"

vars == <<cfg, pc, idx, kidx, contents, puppet_config, fs, owner, calls, err>>

Ev(op, path, arg) == [op |-> op, path |-> path, arg |-> arg]

\* install with False as the default of the 'install' key
install_DefaultFalse == cfg.install = "true"

\* util.get_cfg_option_bool(puppet_cfg, 'install', True)
install == cfg.install # "false"
\* util.get_cfg_option_str(puppet_cfg, 'version', None)
version == cfg.version
conf == cfg.conf

Init ==
    /\ cfg \in Configs
    /\ pc = "start"
    /\ idx = 1
    /\ kidx = 1
    /\ contents = <<>>
    /\ puppet_config = <<>>
    /\ \E f \in InitialConfFiles :
          fs = [p \in Paths |-> IF p = conf_path THEN f ELSE NoFile]
    /\ owner = [p \in Paths |-> <<"root", "root">>]
    /\ calls = <<>>
    /\ err = "none"

\* Raise with the exception caught and logged, handle going on to line 197
Raise_Continue(e, returned) ==
    /\ pc' = "autostart"
    /\ err' = e
    /\ calls' = calls \o returned
    /\ UNCHANGED <<cfg, idx, kidx, contents, puppet_config, fs, owner>>

\* an exception leaves handle; the calls that returned before it are kept
Raise(e, returned) ==
    /\ pc' = "failed"
    /\ err' = e
    /\ calls' = calls \o returned
    /\ UNCHANGED <<cfg, idx, kidx, contents, puppet_config, fs, owner>>

(* ------------------------- lines 119-150 ------------------------------ *)
\* Skip without the return of line 124
Skip_FallThrough ==
    /\ pc = "start"
    /\ ~cfg.puppet
    /\ pc' = "conf"
    /\ UNCHANGED <<cfg, idx, kidx, contents, puppet_config, fs, owner, calls, err>>

\* lines 121-124
Skip ==
    /\ pc = "start"
    /\ ~cfg.puppet
    /\ pc' = "done"
    /\ UNCHANGED <<cfg, idx, kidx, contents, puppet_config, fs, owner, calls, err>>

\* lines 143-145
WarnNoInstall ==
    /\ pc = "start"
    /\ cfg.puppet
    /\ ~install /\ version # None
    /\ pc' = "conf"
    /\ calls' = Append(calls, Ev("warn", "", "install"))
    /\ UNCHANGED <<cfg, idx, kidx, contents, puppet_config, fs, owner, err>>

\* lines 143, 146: neither branch
NoInstall ==
    /\ pc = "start"
    /\ cfg.puppet
    /\ ~install /\ version = None
    /\ pc' = "conf"
    /\ UNCHANGED <<cfg, idx, kidx, contents, puppet_config, fs, owner, calls, err>>

\* lines 146-150
InstallPackages ==
    /\ pc = "start"
    /\ cfg.puppet
    /\ install
    /\ \/ /\ pc' = "conf"
          /\ calls' = Append(calls, Ev("install_packages", "",
                                       <<DEFAULT_PACKAGE_NAME, version>>))
          /\ UNCHANGED <<cfg, idx, kidx, contents, puppet_config, fs, owner, err>>
       \/ Raise("install_packages", <<>>)

(* ------------------------- lines 153-164 ------------------------------ *)
\* NoConf that returns from handle instead of going on to line 197
NoConf_Return ==
    /\ pc = "conf"
    /\ ~cfg.has_conf
    /\ pc' = "done"
    /\ UNCHANGED <<cfg, idx, kidx, contents, puppet_config, fs, owner, calls, err>>

\* line 153, 'conf' absent
NoConf ==
    /\ pc = "conf"
    /\ ~cfg.has_conf
    /\ pc' = "autostart"
    /\ UNCHANGED <<cfg, idx, kidx, contents, puppet_config, fs, owner, calls, err>>

\* lines 155-164
LoadConf ==
    /\ pc = "conf"
    /\ cfg.has_conf
    /\ IF fs[conf_path].kind = "file"
       THEN /\ contents' = fs[conf_path].data
            /\ puppet_config' = LoadStore(fs[conf_path].data)
            /\ pc' = "loop"
            /\ idx' = 1
            /\ kidx' = 1
            /\ calls' = Append(calls, Ev("load_file", conf_path, <<>>))
            /\ UNCHANGED <<cfg, fs, owner, err>>
       ELSE Raise("load_file", <<>>)

(* ------------------------- lines 165-194 ------------------------------ *)
InLoop == pc = "loop" /\ idx <= Len(conf)
\* (cfg_name, cfg) of line 165
cfg_name == conf[idx].name
entry == conf[idx]

\* the steps of the ca_cert branch: a call that returns moves handle on, a
\* call that raises ends it
EnsureDir(at, path, mode, next) ==
    /\ pc = at
    /\ \/ /\ fs' = [fs EXCEPT ![path] = Dir(mode)]
          /\ calls' = Append(calls, Ev("ensure_dir", path, mode))
          /\ pc' = next
          /\ UNCHANGED <<cfg, idx, kidx, contents, puppet_config, owner, err>>
       \/ Raise("ensure_dir", <<>>)

ChownByName(at, path, next) ==
    /\ pc = at
    /\ \/ /\ fs[path].kind # "none"
          /\ owner' = [owner EXCEPT ![path] = <<"puppet", "root">>]
          /\ calls' = Append(calls, Ev("chownbyname", path, <<"puppet", "root">>))
          /\ pc' = next
          /\ UNCHANGED <<cfg, idx, kidx, contents, puppet_config, fs, err>>
       \/ Raise("chownbyname", <<>>)

\* EnsureSslDir without the mode argument
EnsureSslDir_NoMode ==
    /\ InLoop
    /\ cfg_name = "ca_cert"
    /\ EnsureDir("loop", ssl_dir, "default", "chown_ssl_dir")

\* line 171
EnsureSslDir ==
    /\ InLoop
    /\ cfg_name = "ca_cert"
    /\ EnsureDir("loop", ssl_dir, "0o771", "chown_ssl_dir")

\* line 172
ChownSslDir == ChownByName("chown_ssl_dir", ssl_dir, "ensure_cert_dir")

\* line 173
EnsureCertDir == EnsureDir("ensure_cert_dir", ssl_cert_dir, "default", "chown_cert_dir")

\* line 174
ChownCertDir == ChownByName("chown_cert_dir", ssl_cert_dir, "write_cert")

\* WriteCert with the payload case-normalised like a certname
WriteCert_Lowered ==
    /\ pc = "write_cert"
    /\ \/ /\ fs' = [fs EXCEPT ![ssl_cert_path] = File(lower(entry.str))]
          /\ calls' = Append(calls, Ev("write_file", ssl_cert_path, lower(entry.str)))
          /\ pc' = "chown_cert"
          /\ UNCHANGED <<cfg, idx, kidx, contents, puppet_config, owner, err>>
       \/ Raise("write_file", <<>>)

\* line 175
WriteCert ==
    /\ pc = "write_cert"
    /\ \/ /\ fs' = [fs EXCEPT ![ssl_cert_path] = File(entry.str)]
          /\ calls' = Append(calls, Ev("write_file", ssl_cert_path, entry.str))
          /\ pc' = "chown_cert"
          /\ UNCHANGED <<cfg, idx, kidx, contents, puppet_config, owner, err>>
       \/ Raise("write_file", <<>>)

\* ChownCert that also stores the payload as an option of the text file
ChownCert_AlsoSet ==
    /\ pc = "chown_cert"
    /\ \/ /\ owner' = [owner EXCEPT ![ssl_cert_path] = <<"puppet", "root">>]
          /\ puppet_config' = set(puppet_config, "main", cfg_name, entry.str)
          /\ calls' = calls \o <<Ev("chownbyname", ssl_cert_path, <<"puppet", "root">>),
                                 Ev("set", "", <<"main", cfg_name, entry.str>>)>>
          /\ pc' = "rename"
          /\ UNCHANGED <<cfg, idx, kidx, contents, fs, err>>
       \/ Raise("chownbyname", <<>>)

\* line 176
ChownCert == ChownByName("chown_cert", ssl_cert_path, "rename")

\* line 180 on a value that is no mapping: cfg.items() raises
BadEntry ==
    /\ InLoop
    /\ cfg_name # "ca_cert"
    /\ entry.shape # "dict"
    /\ Raise("AttributeError", <<>>)

\* line 180 on an empty mapping
EmptyItems ==
    /\ InLoop
    /\ cfg_name # "ca_cert"
    /\ entry.shape = "dict"
    /\ entry.body = <<>>
    /\ pc' = "rename"
    /\ UNCHANGED <<cfg, idx, kidx, contents, puppet_config, fs, owner, calls, err>>

\* lines 180-189, one (o, v) of the section
SetOption ==
    /\ InLoop
    /\ cfg_name # "ca_cert"
    /\ entry.shape = "dict"
    /\ kidx <= Len(entry.body)
    /\ LET o == entry.body[kidx][1]
           v == entry.body[kidx][2]
           Store(nv, returned) ==
               /\ puppet_config' = set_option(puppet_config, cfg_name, o, nv)
               /\ calls' = calls \o returned \o <<Ev("set", "", <<cfg_name, o, nv>>)>>
               /\ kidx' = kidx + 1
               /\ pc' = IF kidx + 1 > Len(entry.body) THEN "rename" ELSE "loop"
               /\ UNCHANGED <<cfg, idx, contents, fs, owner, err>>
       IN IF o = "certname"
          THEN \E fqdn \in Fqdns, iid \in InstanceIds :
                 IF iid = NoId
                 THEN Raise("TypeError", <<Ev("getfqdn", "", fqdn),
                                           Ev("get_instance_id", "", iid)>>)
                 ELSE Store(option_value(o, v, fqdn, iid),
                            <<Ev("getfqdn", "", fqdn), Ev("get_instance_id", "", iid)>>)
          ELSE Store(option_value(o, v, <<>>, <<>>), <<>>)

\* RenameConf that copies conf_path to the .old path and leaves it in place
RenameConf_Copy ==
    /\ pc = "rename"
    /\ \/ /\ fs[conf_path].kind = "file"
          /\ fs' = [fs EXCEPT ![OldPath(conf_path)] = fs[conf_path]]
          /\ calls' = Append(calls, Ev("rename", conf_path, OldPath(conf_path)))
          /\ pc' = "write"
          /\ UNCHANGED <<cfg, idx, kidx, contents, puppet_config, owner, err>>
       \/ Raise("rename", <<>>)

\* lines 192-193
RenameConf ==
    /\ pc = "rename"
    /\ \/ /\ fs[conf_path].kind = "file"
          /\ fs' = [fs EXCEPT ![OldPath(conf_path)] = fs[conf_path],
                              ![conf_path] = NoFile]
          /\ calls' = Append(calls, Ev("rename", conf_path, OldPath(conf_path)))
          /\ pc' = "write"
          /\ UNCHANGED <<cfg, idx, kidx, contents, puppet_config, owner, err>>
       \/ Raise("rename", <<>>)

\* WriteConf that writes the store as it was loaded at lines 159-164
WriteConf_Stale ==
    /\ pc = "write"
    /\ \/ /\ fs' = [fs EXCEPT ![conf_path] = File(stringify(LoadStore(contents)))]
          /\ calls' = Append(calls, Ev("write_file", conf_path,
                                       stringify(LoadStore(contents))))
          /\ pc' = "loop"
          /\ idx' = idx + 1
          /\ kidx' = 1
          /\ UNCHANGED <<cfg, contents, puppet_config, owner, err>>
       \/ Raise("write_file", <<>>)

\* WriteConf that puts the new text after the text read at line 155
WriteConf_Append ==
    /\ pc = "write"
    /\ \/ /\ fs' = [fs EXCEPT ![conf_path] = File(contents \o stringify(puppet_config))]
          /\ calls' = Append(calls, Ev("write_file", conf_path,
                                       contents \o stringify(puppet_config)))
          /\ pc' = "loop"
          /\ idx' = idx + 1
          /\ kidx' = 1
          /\ UNCHANGED <<cfg, contents, puppet_config, owner, err>>
       \/ Raise("write_file", <<>>)

\* line 194, and on to the next entry
WriteConf ==
    /\ pc = "write"
    /\ \/ /\ fs' = [fs EXCEPT ![conf_path] = File(stringify(puppet_config))]
          /\ calls' = Append(calls, Ev("write_file", conf_path, stringify(puppet_config)))
          /\ pc' = "loop"
          /\ idx' = idx + 1
          /\ kidx' = 1
          /\ UNCHANGED <<cfg, contents, puppet_config, owner, err>>
       \/ Raise("write_file", <<>>)

\* LoopDone with lines 192-194 after the loop
LoopDone_Commit ==
    /\ pc = "loop"
    /\ idx > Len(conf)
    /\ fs' = [fs EXCEPT ![OldPath(conf_path)] = fs[conf_path],
                        ![conf_path] = File(stringify(puppet_config))]
    /\ calls' = calls \o <<Ev("rename", conf_path, OldPath(conf_path)),
                           Ev("write_file", conf_path, stringify(puppet_config))>>
    /\ pc' = "autostart"
    /\ UNCHANGED <<cfg, idx, kidx, contents, puppet_config, owner, err>>

\* line 165: no entry is left
LoopDone ==
    /\ pc = "loop"
    /\ idx > Len(conf)
    /\ pc' = "autostart"
    /\ UNCHANGED <<cfg, idx, kidx, contents, puppet_config, fs, owner, calls, err>>

(* ------------------------- lines 103-116, 196-200 --------------------- *)
Subp(cmd) == Ev("subp", "", cmd)
Exists(path, ret) == Ev("exists", path, ret)

\* _autostart_puppet that looks for /bin/systemctl before /etc/default/puppet
AutostartPuppet_SystemctlFirst ==
    /\ pc = "autostart"
    /\ \E e1, e2, e3 \in BOOLEAN :
         LET asked ==
               IF e2 THEN <<Exists("/bin/systemctl", TRUE)>>
               ELSE IF e1 THEN <<Exists("/bin/systemctl", FALSE),
                                 Exists("/etc/default/puppet", TRUE)>>
               ELSE <<Exists("/bin/systemctl", FALSE),
                      Exists("/etc/default/puppet", FALSE),
                      Exists("/sbin/chkconfig", e3)>>
             run ==
               IF e2 THEN Subp(<<"/bin/systemctl", "enable", "puppet.service">>)
               ELSE IF e1 THEN Subp(<<"sed", "-i", "-e", "s/^START=.*/START=yes/",
                                      "/etc/default/puppet">>)
               ELSE IF e3 THEN Subp(<<"/sbin/chkconfig", "puppet", "on">>)
               ELSE Ev("warn", "", "autostart")
         IN \/ /\ calls' = calls \o asked \o <<run>>
               /\ pc' = "start_puppet"
               /\ UNCHANGED <<cfg, idx, kidx, contents, puppet_config, fs, owner, err>>
            \/ /\ run.op = "subp"
               /\ Raise("subp", asked)

\* _autostart_puppet: os.path.exists is asked until one mechanism is found
AutostartPuppet ==
    /\ pc = "autostart"
    /\ \E e1, e2, e3 \in BOOLEAN :
         LET asked ==
               IF e1 THEN <<Exists("/etc/default/puppet", TRUE)>>
               ELSE IF e2 THEN <<Exists("/etc/default/puppet", FALSE),
                                 Exists("/bin/systemctl", TRUE)>>
               ELSE <<Exists("/etc/default/puppet", FALSE),
                      Exists("/bin/systemctl", FALSE),
                      Exists("/sbin/chkconfig", e3)>>
             run ==
               IF e1 THEN Subp(<<"sed", "-i", "-e", "s/^START=.*/START=yes/",
                                 "/etc/default/puppet">>)
               ELSE IF e2 THEN Subp(<<"/bin/systemctl", "enable", "puppet.service">>)
               ELSE IF e3 THEN Subp(<<"/sbin/chkconfig", "puppet", "on">>)
               ELSE Ev("warn", "", "autostart")
         IN \/ /\ calls' = calls \o asked \o <<run>>
               /\ pc' = "start_puppet"
               /\ UNCHANGED <<cfg, idx, kidx, contents, puppet_config, fs, owner, err>>
            \/ /\ run.op = "subp"
               /\ Raise("subp", asked)

\* line 200
StartPuppet ==
    /\ pc = "start_puppet"
    /\ \/ /\ calls' = Append(calls, Subp(<<"service", "puppet", "start">>))
          /\ pc' = "done"
          /\ UNCHANGED <<cfg, idx, kidx, contents, puppet_config, fs, owner, err>>
       \/ Raise("subp", <<>>)

Next ==
    \/ Skip
    \/ WarnNoInstall
    \/ NoInstall
    \/ InstallPackages
    \/ NoConf
    \/ LoadConf
    \/ EnsureSslDir
    \/ ChownSslDir
    \/ EnsureCertDir
    \/ ChownCertDir
    \/ WriteCert
    \/ ChownCert
    \/ BadEntry
    \/ EmptyItems
    \/ SetOption
    \/ RenameConf
    \/ WriteConf
    \/ LoopDone
    \/ AutostartPuppet
    \/ StartPuppet

Spec == Init /\ [][Next]_vars

(* ====================================================================== *)
(* The claims                                                             *)
(* ====================================================================== *)
CallIdx == 1..Len(calls)
IsConfRename(c) == c.op = "rename" /\ c.path = conf_path
IsConfWrite(c) == c.op = "write_file" /\ c.path = conf_path
CertPaths == {ssl_dir, ssl_cert_dir, ssl_cert_path}
IsCertCall(c) == c.op \in {"ensure_dir", "chownbyname", "write_file"} /\ c.path \in CertPaths
IsSet(c) == c.op = "set"
Count(P(_)) == Cardinality({n \in CallIdx : P(calls[n])})
\* the update of puppet.conf is over and nothing raised
UpdateDone == cfg.has_conf /\ pc \in {"autostart", "start_puppet", "done"}
\* the text read back as a store (lstrip, readfp)
Parse(text) == readfp(cleaned_lines(text), <<>>, "")

\* C1: when the config update is complete for a description with at least
\* one top-level entry, puppet.conf.old holds the content puppet.conf had
\* before the call, puppet.conf holds the merged text, and every write of
\* puppet.conf comes right after a rename of puppet.conf to puppet.conf.old.
C1_CommitProtocol ==
    (UpdateDone /\ Len(conf) >= 1) =>
        /\ fs[OldPath(conf_path)] = File(contents)
        /\ fs[conf_path] = File(stringify(puppet_config))
        /\ \A n \in CallIdx :
              IsConfWrite(calls[n]) => n > 1 /\ IsConfRename(calls[n - 1])

\* C2: every certificate side effect (ensure ssl dir, ensure cert dir, write
\* of the PEM, ownership changes) comes before the first rename or write of
\* puppet.conf, whatever the position of ca_cert in the description.
C2_CertBeforeConf ==
    \A m, n \in CallIdx :
        (IsCertCall(calls[n]) /\ (IsConfRename(calls[m]) \/ IsConfWrite(calls[m])))
            => n < m

OnlyCaCert == cfg.has_conf /\ conf = <<StrEntry("ca_cert", PemValue)>>
IsCertWrite(c) == c.op = "write_file" /\ c.path = ssl_cert_path

\* C3, as claimed: for the description {'ca_cert': pem} no key is set in
\* the store, puppet.conf is neither renamed nor rewritten, and there is
\* exactly one write, of exactly pem, to the certificate file path.
C3_NoRewrite ==
    (UpdateDone /\ OnlyCaCert) =>
        /\ Count(IsSet) = 0
        /\ Count(IsConfRename) = 0
        /\ Count(IsConfWrite) = 0
        /\ Count(IsCertWrite) = 1
        /\ \A n \in CallIdx : IsCertWrite(calls[n]) => calls[n].arg = PemValue

\* C3, amended: for the description {'ca_cert': pem} no key is set in the
\* store; puppet.conf is renamed to puppet.conf.old once and written once,
\* with the serialization of the store exactly as it was loaded; and there
\* is exactly one write, of exactly pem, to the certificate file path.
C3_CaCertRouting ==
    (UpdateDone /\ OnlyCaCert) =>
        /\ Count(IsSet) = 0
        /\ puppet_config = Parse(contents)
        /\ Count(IsConfRename) = 1
        /\ Count(IsConfWrite) = 1
        /\ fs[OldPath(conf_path)] = File(contents)
        /\ fs[conf_path] = File(stringify(Parse(contents)))
        /\ Count(IsCertWrite) = 1
        /\ \A n \in CallIdx : IsCertWrite(calls[n]) => calls[n].arg = PemValue
        /\ fs[ssl_cert_path] = File(PemValue)

C3_Witness == UpdateDone /\ OnlyCaCert /\ pc = "done"

\* the section named s of store st, or an empty one
SectionOf(st, s) ==
    IF SectionIndex(st, s) = 0 THEN [name |-> s, items |-> <<>>]
    ELSE st[SectionIndex(st, s)]
HasKey(sec, k) == KeyIndex(sec.items, k) # 0
\* the description has a section s (not ca_cert) whose mapping sets k
DescriptionSets(s, k) ==
    \E j \in 1..Len(conf) :
        /\ conf[j].name = s
        /\ conf[j].name # "ca_cert"
        /\ conf[j].shape = "dict"
        /\ KeyIndex(conf[j].body, k) # 0
DescriptionNames(s) ==
    \E j \in 1..Len(conf) :
        conf[j].name = s /\ conf[j].name # "ca_cert" /\ conf[j].shape = "dict"
\* puppet.conf has just been written: every text written is the latest call
\* in the state its write leads to
JustWritten == calls # <<>> /\ IsConfWrite(calls[Len(calls)])
\* the payload is never given to set and only written to the certificate path
PayloadNotStored ==
    \A n \in CallIdx :
        /\ IsSet(calls[n]) => calls[n].arg[1] # "ca_cert" /\ calls[n].arg[3] # PemValue
        /\ IsCertWrite(calls[n]) => calls[n].arg = PemValue
        /\ IsConfWrite(calls[n]) =>
              \A l \in 1..Len(calls[n].arg) :
                  calls[n].arg[l].t = "kv" => calls[n].arg[l].val # PemValue

\* C4, as claimed: the value under the top-level key ca_cert is never given
\* to set, 'ca_cert' is never a section or a key of a text written to
\* puppet.conf, and the payload is only written to the certificate path.
C4_NeverInText ==
    /\ PayloadNotStored
    /\ \A n \in CallIdx : IsConfWrite(calls[n]) =>
          \A l \in 1..Len(calls[n].arg) :
              /\ calls[n].arg[l].t = "hdr" => calls[n].arg[l].name # "ca_cert"
              /\ calls[n].arg[l].t = "kv" => calls[n].arg[l].key # "ca_cert"

\* C4, amended: the value under the top-level key ca_cert is never given to
\* set and set is never called with the section ca_cert; every section of a
\* text written to puppet.conf is a section of the existing file or a
\* (non-ca_cert) section of the description, and every key of it is a key
\* the existing file has in that section or one that section of the
\* description sets (so a key named ca_cert is written only when a section
\* of the description or the existing file has a key of that name); the
\* payload is only written to the certificate path.
C4_CaCertNotStored ==
    /\ PayloadNotStored
    /\ JustWritten =>
          LET old == Parse(contents)
              st == Parse(calls[Len(calls)].arg)
          IN
          \A a \in 1..Len(st) :
              LET had == SectionOf(old, st[a].name) IN
              /\ SectionIndex(old, st[a].name) # 0 \/ DescriptionNames(st[a].name)
              /\ \A b \in 1..Len(st[a].items) :
                    \/ HasKey(had, st[a].items[b][1])
                    \/ DescriptionSets(st[a].name, st[a].items[b][1])

\* a description with ca_cert and a section has been merged and written
C4_Witness ==
    /\ UpdateDone
    /\ \E j \in 1..Len(conf) : conf[j].name = "ca_cert"
    /\ DescriptionSets("main", "ca_cert")
    /\ Count(IsCertWrite) = 1

IsChown(c) == c.op = "chownbyname"
Creates(c, p) == c.op \in {"ensure_dir", "write_file"} /\ c.path = p
IsCall(c, op, p) == c.op = op /\ c.path = p
\* the calls on the certificate paths, in order
CertCalls == SelectSeq(calls, IsCertCall)
\* the ca_cert entry is behind the loop of line 165
CaCertHandled ==
    /\ pc \notin {"start", "conf", "failed"}
    /\ cfg.has_conf
    /\ \E j \in 1..Len(conf) :
          /\ conf[j].name = "ca_cert"
          /\ j < idx \/ (j = idx /\ pc \in {"rename", "write"})

\* C5: the ssl root directory is ensured with mode 0771 and the cert
\* subdirectory with the default mode, the PEM is written to the cert file
\* path, ownership puppet:root is set on the ssl root directory, then the
\* cert subdirectory, then the cert file, and every ownership change is on
\* a path that was ensured or written earlier.
C5_CertOrder ==
    LET cc == CertCalls
        At(op, p) == {n \in 1..Len(cc) : IsCall(cc[n], op, p)}
    IN
    /\ \A n \in 1..Len(cc) :
          /\ IsCall(cc[n], "ensure_dir", ssl_dir) => cc[n].arg = "0o771"
          /\ IsCall(cc[n], "ensure_dir", ssl_cert_dir) => cc[n].arg = "default"
          /\ IsChown(cc[n]) =>
                /\ cc[n].arg = <<"puppet", "root">>
                /\ \E m \in 1..(n - 1) : Creates(cc[m], cc[n].path)
          /\ IsCall(cc[n], "chownbyname", ssl_cert_dir) =>
                \E m \in 1..(n - 1) : IsCall(cc[m], "chownbyname", ssl_dir)
          /\ IsCall(cc[n], "chownbyname", ssl_cert_path) =>
                \E m \in 1..(n - 1) : IsCall(cc[m], "chownbyname", ssl_cert_dir)
          /\ IsCertWrite(cc[n]) =>
                \E a, b \in 1..(n - 1) :
                    /\ a < b
                    /\ IsCall(cc[a], "ensure_dir", ssl_dir)
                    /\ IsCall(cc[b], "ensure_dir", ssl_cert_dir)
    /\ \A n \in CallIdx : IsChown(calls[n]) => calls[n].path \in CertPaths
    /\ CaCertHandled =>
          /\ Len(cc) = 6
          /\ Cardinality(At("ensure_dir", ssl_dir)) = 1
          /\ Cardinality(At("ensure_dir", ssl_cert_dir)) = 1
          /\ Cardinality(At("write_file", ssl_cert_path)) = 1
          /\ \A p \in CertPaths : Cardinality(At("chownbyname", p)) = 1
          /\ fs[ssl_dir] = Dir("0o771")
          /\ fs[ssl_cert_dir] = Dir("default")
          /\ \A p \in CertPaths : owner[p] = <<"puppet", "root">>

C5_Witness == pc = "rename" /\ cfg_name = "ca_cert" /\ CaCertHandled

\* <<section, option, value>> of the first k options of entry e
EntryTriples(e, k) ==
    IF e.name # "ca_cert" /\ e.shape = "dict"
    THEN [n \in 1..k |-> <<e.name, e.body[n][1], e.body[n][2]>>]
    ELSE <<>>
RECURSIVE TriplesUpTo(_)
TriplesUpTo(j) ==
    IF j = 0 THEN <<>>
    ELSE TriplesUpTo(j - 1) \o EntryTriples(conf[j], Len(conf[j].body))
\* the options of the description the loops of lines 165 and 180 have passed
Processed ==
    TriplesUpTo(idx - 1)
    \o (IF idx <= Len(conf) THEN EntryTriples(conf[idx], kidx - 1) ELSE <<>>)
\* set has just been called: every set call is the latest call in the
\* state it leads to
JustSet == calls # <<>> /\ IsSet(calls[Len(calls)])
ExampleFqdn == <<"h","o","s","t",".","e","x","a","m","p","l","e",".","c","o","m">>
ExampleId == <<"i","-","1","2","3","4">>

\* C6: the value given to set for (section, key, value) of a non-ca_cert
\* entry is, for key certname, the lower-cased result of replacing every
\* '%f' by the fully-qualified domain name and every '%i' by the instance
\* identifier ('%i.%f' gives 'i-1234.host.example.com'), and for any other
\* key the value unchanged.
C6_ValueRewriting ==
    /\ Count(IsSet) = Len(Processed)
    /\ JustSet =>
          LET p == Len(calls)
              a == calls[p].arg
              w == Processed[Len(Processed)]
          IN /\ a[1] = w[1]
             /\ a[2] = w[2]
             /\ IF w[2] = "certname"
                THEN /\ p > 2
                     /\ calls[p - 2].op = "getfqdn"
                     /\ calls[p - 1].op = "get_instance_id"
                     /\ a[3] = lower(replace(replace(w[3], Pct_f, calls[p - 2].arg),
                                             Pct_i, calls[p - 1].arg))
                ELSE a[3] = w[3]
    /\ option_value("certname", <<"%", "i", ".", "%", "f">>, ExampleFqdn, ExampleId)
          = ExampleId \o <<".">> \o ExampleFqdn

\* a certname was expanded with an upper-case letter in the domain name, and
\* another option was set with its value as given
C6_Witness ==
    /\ \E n \in CallIdx :
          /\ IsSet(calls[n])
          /\ calls[n].arg[2] = "certname"
          /\ calls[n].arg[3] = <<"a">> \o ExampleId \o <<".">> \o ExampleFqdn
    /\ \E n \in CallIdx :
          /\ IsSet(calls[n])
          /\ calls[n].arg[2] = "server"
          /\ calls[n].arg[3] = TemplateValue

\* section names are unique, and keys are unique within a section
Uniq(st) ==
    /\ \A a, b \in 1..Len(st) : a # b => st[a].name # st[b].name
    /\ \A a \in 1..Len(st) : \A b, c \in 1..Len(st[a].items) :
          b # c => st[a].items[b][1] # st[a].items[c][1]
\* new is old after set(s, k, v) as the overwrite semantics has it
SetAsSpecified(old, new, s, k, v) ==
    /\ Uniq(new)
    /\ LET n == SectionIndex(old, s) IN
       IF n = 0
       THEN new = Append(old, [name |-> s, items |-> << <<k, v>> >>])
       ELSE /\ Len(new) = Len(old)
            /\ \A a \in 1..Len(old) : a # n => new[a] = old[a]
            /\ new[n].name = s
            /\ LET m == KeyIndex(old[n].items, k) IN
               IF m = 0
               THEN new[n].items = Append(old[n].items, <<k, v>>)
               ELSE /\ Len(new[n].items) = Len(old[n].items)
                    /\ new[n].items[m] = <<k, v>>
                    /\ \A b \in 1..Len(old[n].items) :
                          b # m => new[n].items[b] = old[n].items[b]

\* C7: every set call of a merge leaves section names unique and keys unique
\* within a section; a key that exists is overwritten in place, a key new to
\* an existing section is appended to it, and a section that does not exist
\* is appended after the existing sections, whose order is kept.
C7_SetSemantics ==
    [][ (pc = "loop" /\ Len(calls') > Len(calls) /\ IsSet(calls'[Len(calls')]))
          => LET a == calls'[Len(calls')].arg
             IN SetAsSpecified(puppet_config, puppet_config', a[1], a[2], a[3]) ]_vars

\* certname, the second key of the existing section agent, was overwritten
\* in place, and a section main was appended after the existing sections
C7_Witness ==
    /\ pc \in {"loop", "rename"}
    /\ calls # <<>> /\ IsSet(calls[Len(calls)])
    /\ Len(puppet_config) = 3
    /\ puppet_config[1].name = "agent"
    /\ Len(puppet_config[1].items) = 2
    /\ puppet_config[1].items[2][1] = "certname"
    /\ puppet_config[1].items[2][2] # OldValue
    /\ puppet_config[3].name = "main"

\* new keeps the sections of old, their keys and the order of both, and the
\* values of the keys the description does not set
Preserved(old, new) ==
    /\ Len(new) >= Len(old)
    /\ \A a \in 1..Len(old) :
          /\ new[a].name = old[a].name
          /\ Len(new[a].items) >= Len(old[a].items)
          /\ ~DescriptionNames(old[a].name) => new[a] = old[a]
          /\ \A b \in 1..Len(old[a].items) :
                /\ new[a].items[b][1] = old[a].items[b][1]
                /\ ~DescriptionSets(old[a].name, old[a].items[b][1])
                      => new[a].items[b][2] = old[a].items[b][2]

\* C8: every text written to puppet.conf keeps every section of the
\* existing file that the description does not name, and every key of a
\* named section that the description does not set, with the same keys,
\* values and order; the options of the entries merged so far are in it.
C8_Preservation ==
    JustWritten =>
        LET new == Parse(calls[Len(calls)].arg) IN
        /\ Preserved(Parse(contents), new)
        /\ \A j \in 1..(idx - 1) :
              \A b \in 1..Len(EntryTriples(conf[j], Len(conf[j].body))) :
                  HasKey(SectionOf(new, conf[j].name), conf[j].body[b][1])

\* a description that adds server under [main] was merged onto the existing
\* file, which has the sections agent and user
C8_Witness ==
    /\ pc = "done"
    /\ cfg.has_conf
    /\ conf = <<DictEntry("main", << <<"server", TemplateValue>> >>)>>
    /\ fs[conf_path].kind = "file"
    /\ SectionIndex(Parse(fs[conf_path].data), "agent") = 1
    /\ SectionIndex(Parse(fs[conf_path].data), "main") = 3

\* C9: when a section's value is no mapping the operation fails before any
\* mutation: no set, no rename or write of puppet.conf and no certificate
\* side effect has happened, wherever the entry is in the description.
C9_AbortBeforeMutation ==
    err = "AttributeError" =>
        /\ \A n \in CallIdx :
              calls[n].op \notin {"set", "rename", "write_file", "ensure_dir", "chownbyname"}
        /\ fs[conf_path] = File(contents)
        /\ fs[OldPath(conf_path)] = NoFile

\* C10: with an empty 'conf' mapping puppet.conf keeps its content, no
\* puppet.conf.old is created and no certificate side effect happens.
C10_EmptyConf ==
    (cfg.has_conf /\ conf = <<>>) =>
        /\ (\E n \in CallIdx : calls[n].op = "load_file")
              => fs[conf_path] = File(contents)
        /\ fs[conf_path] \in InitialConfFiles
        /\ \A p \in Paths \ {conf_path} : fs[p] = NoFile
        /\ \A n \in CallIdx :
              calls[n].op \notin {"set", "rename", "write_file", "ensure_dir", "chownbyname"}

C10_Witness == cfg.has_conf /\ conf = <<>> /\ pc = "done" /\ contents = ExistingConf

\* the store after the options of body, from the k-th on, are set in section
\* name with the values rewritten for the machine (fqdn, iid)
RECURSIVE MergeOptions(_, _, _, _, _, _)
MergeOptions(st, name, body, k, fqdn, iid) ==
    IF k > Len(body) THEN st
    ELSE MergeOptions(set(st, name, body[k][1],
                          option_value(body[k][1], body[k][2], fqdn, iid)),
                      name, body, k + 1, fqdn, iid)
\* the store after the first n entries of description d are merged into st;
\* a ca_cert entry sets nothing
RECURSIVE MergeEntries(_, _, _, _, _)
MergeEntries(st, d, n, fqdn, iid) ==
    IF n = 0 THEN st
    ELSE LET before == MergeEntries(st, d, n - 1, fqdn, iid) IN
         IF d[n].name # "ca_cert" /\ d[n].shape = "dict"
         THEN MergeOptions(before, d[n].name, d[n].body, 1, fqdn, iid)
         ELSE before
\* the machine's names when every lookup succeeds
TheFqdn == CHOOSE f \in Fqdns : TRUE
TheId == CHOOSE i \in InstanceIds : i # NoId
\* the last entry has just been written
FinalWritten == JustWritten /\ idx > Len(conf) /\ pc = "loop"

\* C11: set is idempotent: after set(s, k, v) a second set(s, k, v) leaves
\* the store as it is; and the text that results from merging the
\* description onto the text the same merge has produced is that text.
C11_Idempotence ==
    /\ JustSet =>
          LET a == calls[Len(calls)].arg
          IN set(puppet_config, a[1], a[2], a[3]) = puppet_config
    /\ FinalWritten =>
          LET t == fs[conf_path].data
          IN stringify(MergeEntries(Parse(t), conf, Len(conf), TheFqdn, TheId)) = t

\* a description that overwrites a key, adds a key and adds a section has
\* been merged and written
C11_Witness ==
    /\ FinalWritten
    /\ DescriptionSets("agent", "certname")
    /\ DescriptionSets("agent", "ca_cert")
    /\ DescriptionSets("main", "server")

\* C12: when the certname expansion finds no instance identifier (or no
\* domain name) the operation fails before any mutation: no set, no rename
\* and no write of puppet.conf has happened.
C12_MissingContext ==
    err = "TypeError" =>
        /\ \A n \in CallIdx : calls[n].op \notin {"set", "rename", "write_file"}
        /\ fs[conf_path] = File(contents)
        /\ fs[OldPath(conf_path)] = NoFile
        /\ puppet_config = Parse(contents)

\* C13: without the 'puppet' key handle does nothing: no package install,
\* no read, rename or write of a file, no directory or ownership change, no
\* autostart command and no service start; it returns without an error.
C13_NoPuppetKey ==
    ~cfg.puppet =>
        /\ calls = <<>>
        /\ pc \in {"start", "done"}
        /\ err = "none"
        /\ fs[conf_path] \in InitialConfFiles
        /\ \A p \in Paths \ {conf_path} : fs[p] = NoFile
        /\ \A p \in Paths : owner[p] = <<"root", "root">>
        /\ puppet_config = <<>>
        /\ contents = <<>>

C13_Witness == ~cfg.puppet /\ pc = "done" /\ fs[conf_path] = File(ExistingConf)

IsInstall(c) == c.op = "install_packages"
\* a call that reads or changes the configuration file or the certificate
IsFileEffect(c) ==
    c.op \in {"load_file", "set", "rename", "write_file", "ensure_dir", "chownbyname"}

\* C14: the package installer is called if and only if 'install' is true
\* (the default): with install false it is never called, with or without a
\* version; with install true it is called exactly once, with
\* (package_name, version), before every configuration-file and
\* certificate effect.
C14_InstallIff ==
    /\ Count(IsInstall) <= 1
    /\ (~cfg.puppet \/ cfg.install = "false") => Count(IsInstall) = 0
    /\ (cfg.puppet /\ cfg.install \in {"unset", "true"}) =>
          /\ (pc # "start" /\ err # "install_packages") =>
                /\ Count(IsInstall) = 1
                /\ IsInstall(calls[1])
                /\ calls[1].arg = <<DEFAULT_PACKAGE_NAME, cfg.version>>
          /\ err = "install_packages" => calls = <<>>
    /\ \A n \in CallIdx : IsFileEffect(calls[n]) =>
          (cfg.install # "false" => IsInstall(calls[1]) /\ n > 1)

\* installs with the key absent and with it true, each followed by the
\* update of puppet.conf and the certificate
C14_Witness ==
    /\ pc = "done"
    /\ cfg.install = "unset"
    /\ Len(calls) >= 1
    /\ IsInstall(calls[1])
    /\ Count(IsConfWrite) = 2
    /\ Count(IsCertWrite) = 1

IsStart(c) == c.op = "subp" /\ c.arg = <<"service", "puppet", "start">>
\* the outcome of _autostart_puppet: one enabling command or its warning
IsAutoRun(c) ==
    \/ c.op = "subp" /\ ~IsStart(c)
    \/ c.op = "warn" /\ c.arg = "autostart"

\* C15: whenever the 'puppet' key is present and nothing fails, the service
\* start (service puppet start) is attempted exactly once; it is the last
\* effect of the run and comes after autostart enabling, which comes after
\* all configuration-file and certificate effects.
C15_StartLast ==
    /\ Count(IsStart) <= 1
    /\ (pc = "failed") <=> (err # "none")
    /\ pc = "start_puppet" => cfg.puppet /\ ENABLED StartPuppet
    /\ (cfg.puppet /\ pc # "done") => Count(IsStart) = 0
    /\ (cfg.puppet /\ pc = "done") =>
          LET L == Len(calls) IN
          /\ L >= 3
          /\ IsStart(calls[L])
          /\ Count(IsStart) = 1
          /\ IsAutoRun(calls[L - 1])
          /\ Count(IsAutoRun) = 1
          /\ \A n \in CallIdx :
                (IsFileEffect(calls[n]) \/ IsInstall(calls[n])) =>
                   \A m \in CallIdx : calls[m].op = "exists" => n < m
          /\ \A m \in CallIdx : calls[m].op = "exists" => m < L - 1

\* a run with the certificate and an option installed that then enabled and
\* started the agent
C15_Witness ==
    /\ pc = "done"
    /\ cfg.install = "false"
    /\ Count(IsConfWrite) = 2
    /\ Count(IsCertWrite) = 1
    /\ IsStart(calls[Len(calls)])

\* calls that only ask something and change nothing
IsQuery(c) == c.op \in {"exists", "getfqdn", "get_instance_id"}

\* C16: fail-fast. If a filesystem effect (directory creation, ownership
\* change, rename, file write) or the package install fails, no later
\* effect is executed (no certificate or configuration-file effect, no
\* autostart, no service start) and the failure reaches the caller: the
\* failing step changes nothing, handle takes no step after it, and no run
\* that failed ends as a normal return.
C16_FailFast ==
    [][ /\ err = "none"
        /\ pc # "failed"
        /\ err' # "none" =>
              /\ pc' = "failed"
              /\ fs' = fs
              /\ owner' = owner
              /\ puppet_config' = puppet_config
              /\ Len(calls') >= Len(calls)
              /\ SubSeq(calls', 1, Len(calls)) = calls
              /\ \A n \in (Len(calls) + 1)..Len(calls') : IsQuery(calls'[n])
        /\ pc' = "done" => err' = "none" ]_vars

\* the ownership change of the written certificate failed: the certificate
\* is on disk, owned by root, and handle was left
C16_Witness ==
    /\ pc = "failed"
    /\ err = "chownbyname"
    /\ Count(IsCertWrite) = 1
    /\ owner[ssl_cert_path] = <<"root", "root">>
    /\ ~(\E n \in CallIdx : calls[n].op = "exists")

\* between the rename of line 192 and the return of the write of line 194:
\* handle is about to write, or the write raised
InWindow ==
    \/ pc = "write"
    \/ /\ pc = "failed"
       /\ err = "write_file"
       /\ calls # <<>>
       /\ IsConfRename(calls[Len(calls)])
Loaded == \E n \in CallIdx : calls[n].op = "load_file"

\* C17: crash window. A crash, or a failing write, between the rename of
\* conf_path to conf_path.old and the write that follows leaves no file at
\* conf_path (the previous text is at the .old path); in every other state
\* of handle a file is at conf_path provided one was there before the call.
C17_CrashWindow ==
    /\ InWindow =>
          /\ fs[conf_path] = NoFile
          /\ fs[OldPath(conf_path)].kind = "file"
    /\ (~InWindow /\ Loaded) => fs[conf_path].kind = "file"
    /\ ~Loaded =>
          /\ fs[conf_path] \in InitialConfFiles
          /\ Count(IsConfRename) = 0
          /\ Count(IsConfWrite) = 0
          /\ (cfg.puppet /\ cfg.has_conf /\ fs[conf_path].kind = "file") =>
                pc \in {"start", "conf"} \/ err = "install_packages"

\* the write of the second entry failed: conf_path is gone, the text written
\* for the first entry is at the .old path
C17_Witness ==
    /\ InWindow
    /\ pc = "failed"
    /\ Count(IsConfWrite) = 1
    /\ fs[conf_path] = NoFile
    /\ fs[OldPath(conf_path)].kind = "file"

\* the text the store gives after the first n entries of the description
TextAfter(n) ==
    stringify(MergeEntries(Parse(contents), conf, n, TheFqdn, TheId))

IsAutoCall(c) == c.op = "exists" \/ IsAutoRun(c)
\* what _autostart_puppet asked and did, in order
AutoCalls == SelectSeq(calls, IsAutoCall)
SedCmd == <<"sed", "-i", "-e", "s/^START=.*/START=yes/", "/etc/default/puppet">>
SystemctlCmd == <<"/bin/systemctl", "enable", "puppet.service">>
ChkconfigCmd == <<"/sbin/chkconfig", "puppet", "on">>

\* a is the first n existence answers of the priority order that picks the
\* mechanism number n (1 sed, 2 systemctl, 3 chkconfig)
AskedFor(a, n) ==
    LET ex(k, p, r) == a[k].op = "exists" /\ a[k].path = p /\ a[k].arg = r
    IN /\ Len(a) >= n
       /\ n = 1 => ex(1, "/etc/default/puppet", TRUE)
       /\ n >= 2 => ex(1, "/etc/default/puppet", FALSE)
       /\ n = 2 => ex(2, "/bin/systemctl", TRUE)
       /\ n = 3 => ex(2, "/bin/systemctl", FALSE) /\ ex(3, "/sbin/chkconfig", TRUE)

\* a is a whole run of _autostart_puppet that returned
Selected(a) ==
    \/ Len(a) = 2 /\ AskedFor(a, 1) /\ a[2].op = "subp" /\ a[2].arg = SedCmd
    \/ Len(a) = 3 /\ AskedFor(a, 2) /\ a[3].op = "subp" /\ a[3].arg = SystemctlCmd
    \/ Len(a) = 4 /\ AskedFor(a, 3) /\ a[4].op = "subp" /\ a[4].arg = ChkconfigCmd
    \/ /\ Len(a) = 4
       /\ a[1].op = "exists" /\ a[1].path = "/etc/default/puppet" /\ a[1].arg = FALSE
       /\ a[2].op = "exists" /\ a[2].path = "/bin/systemctl" /\ a[2].arg = FALSE
       /\ a[3].op = "exists" /\ a[3].path = "/sbin/chkconfig" /\ a[3].arg = FALSE
       /\ a[4].op = "warn" /\ a[4].arg = "autostart"

\* a is a run of _autostart_puppet whose enabling command raised
EnableFailed(a) == \E n \in 1..3 : Len(a) = n /\ AskedFor(a, n)

Warned == \E n \in CallIdx : calls[n].op = "warn" /\ calls[n].arg = "autostart"

\* C19: _autostart_puppet runs at most one enable mechanism, chosen by fixed
\* priority: the sed edit of /etc/default/puppet if that file exists, else
\* systemctl enable puppet.service if /bin/systemctl exists, else
\* chkconfig puppet on if /sbin/chkconfig exists; if none exists it only logs
\* a warning, raises no error, and the service start is still attempted.
C19_AutostartSelection ==
    LET a == AutoCalls IN
    /\ Count(IsAutoRun) <= 1
    /\ pc \in {"start_puppet", "done"} /\ cfg.puppet => Selected(a)
    /\ pc \notin {"start_puppet", "done", "failed"} => a = <<>>
    /\ (pc = "failed" /\ a # <<>>) =>
          /\ err = "subp"
          /\ Selected(a) \/ EnableFailed(a)
    /\ pc = "start_puppet" => err = "none"
    /\ Warned =>
          /\ Selected(a)
          /\ pc = "start_puppet" => ENABLED StartPuppet
          /\ pc = "done" => IsStart(calls[Len(calls)])
          /\ pc = "failed" => err = "subp" /\ IsAutoRun(calls[Len(calls)])

\* none of the three mechanisms exists: the warning was logged and the agent
\* was started
C19_Witness ==
    /\ pc = "done"
    /\ Warned
    /\ Len(AutoCalls) = 4
    /\ IsStart(calls[Len(calls)])
====
